---- MODULE Spec2Model ----
(***************************************************************************)
(* A model of InsertQueryBuilder (src/query-builder/insert-query-builder.ts)*)
(*                                                                         *)
(* Objects live in three heaps: builders (the frozen #props of every       *)
(* InsertQueryBuilder ever constructed), nodes (the insert query roots)    *)
(* and executors.  A builder holds references (heap indices) to its root   *)
(* and its executor plus the query id.  Builder methods are operators on a *)
(* heap record h = [builders, nodes, executors, origin] that return the    *)
(* new heap and the returned builder; one action per method commits that   *)
(* result.  The terminal operations (compile, execute, stream, ...) are    *)
(* split at their await / yield points.                                    *)
(***************************************************************************)
EXTENDS Integers, Sequences, FiniteSets, TLC

VARIABLES
    builders,           \* heap of builder #props: [queryId, queryNode, executor]
    nodes,              \* heap of InsertQueryNode objects
    executors,          \* heap of QueryExecutor objects: [plugins]
    origin,             \* per builder: how it was constructed [parent, op, arg]
    supportsReturning,  \* executor.adapter.supportsReturning
    last,               \* the most recent builder-method call and what it returned
    run,                \* the terminal operation in flight (or finished)
    log                 \* the executor calls made by the current terminal operation

vars == <<builders, nodes, executors, origin, supportsReturning, last, run, log>>

\* ---------------------------------------------------------------- bounds
MaxBuilders == 3
MaxRows == 2
MaxChunks == 3

\* ------------------------------------------------------- optional values
None == <<>>
Some(x) == <<x>>
IsSome(o) == Len(o) = 1
Get(o) == o[1]

\* ------------------------------------------------------------ input sets
\* An insert expression: a single row object (isArray FALSE) or an array of
\* rows; a row is the sequence of its keys in declaration order.
InsertExprs ==
    { [isArray |-> TRUE,  rows |-> <<>>],
      [isArray |-> FALSE, rows |-> << <<"a">> >>],
      [isArray |-> TRUE,  rows |-> << <<"a", "b">>, <<"b", "a">> >>] }

ColumnLists == { <<"a">>, <<"b", "a">> }

\* The callbacks handed to onConflict, each a chain on the OnConflictBuilder.
ConflictCallbacks == { "column_doNothing", "column_doUpdateSet", "constraint_doNothing" }

\* The transforms handed to $if.
Funcs == { "self", "ignore", "returningAll" }

Plugins == { "dropReturning", "withSchema" }

QueryIds == { "q1", "q2" }

\* ------------------------------------------------------------ node model
InsertQueryNodeCreate(into) ==
    [ kind |-> "InsertQueryNode", into |-> into, schema |-> None,
      columns |-> None, values |-> None, ignore |-> FALSE,
      onConflict |-> None, onDuplicateKey |-> None,
      returning |-> None, explain |-> None ]

\* InsertQueryNode.cloneWith: a new node, the given fields overridden, all
\* others copied.
cloneWith(node, props) ==
    [ f \in DOMAIN node |-> IF f \in DOMAIN props THEN props[f] ELSE node[f] ]

\* QueryNode.cloneWithReturning: the selections are added to the clause.
cloneWithReturning(node, selections) ==
    cloneWith(node,
        [ returning |-> IF IsSome(node.returning)
                          THEN Some(Get(node.returning) \o selections)
                          ELSE Some(selections) ])

\* QueryNode.cloneWithExplain
cloneWithExplain(node, format) ==
    cloneWith(node, [ explain |-> Some([format |-> format]) ])

OnConflictNodeCreate ==
    [ columns |-> None, constraint |-> None, doNothing |-> FALSE, updates |-> None ]

\* callback(new OnConflictBuilder({onConflictNode})).toOperationNode()
RunConflictCallback(callback, onConflictNode) ==
    CASE callback = "column_doNothing" ->
            [ onConflictNode EXCEPT !.columns = Some(<<"id">>), !.doNothing = TRUE ]
      [] callback = "column_doUpdateSet" ->
            [ onConflictNode EXCEPT !.columns = Some(<<"id">>),
                                    !.updates = Some(<<"first_name">>) ]
      [] callback = "constraint_doNothing" ->
            [ onConflictNode EXCEPT !.constraint = Some("pk"), !.doNothing = TRUE ]

\* ---------------------------------------------------------------- parsers
RECURSIVE UnionColumns(_, _)
\* The keys of the rows, in first-seen order.
UnionColumns(rows, acc) ==
    IF rows = <<>> THEN acc
    ELSE LET row == Head(rows)
             fresh == SelectSeq(row, LAMBDA k : \A i \in 1..Len(acc) : acc[i] # k)
         IN UnionColumns(Tail(rows), acc \o fresh)

HasKey(row, k) == \E i \in 1..Len(row) : row[i] = k

\* parseInsertExpression: [columns, values] or a Shape Error.  The value of
\* key k in row r is written [row |-> r, col |-> k]; a key the row lacks
\* gets the default marker (row 0).
parseInsertExpression(insert) ==
    IF insert.isArray /\ insert.rows = <<>>
      THEN [ err |-> "ShapeError", columns |-> <<>>, values |-> <<>> ]
      ELSE LET cols == UnionColumns(insert.rows, <<>>)
           IN [ err |-> "",
                columns |-> cols,
                values |-> [ r \in 1..Len(insert.rows) |->
                              [ c \in 1..Len(cols) |->
                                  IF HasKey(insert.rows[r], cols[c])
                                    THEN [row |-> r, col |-> cols[c]]
                                    ELSE [row |-> 0, col |-> cols[c]] ] ] ]

\* ------------------------------------------------------------------ heap
Heap ==
    [ builders |-> builders, nodes |-> nodes, executors |-> executors,
      origin |-> origin ]

\* What a builder method hands back: the heap after it, the builder it
\* returned (0 when it threw) and the error it threw ("" when none).
Ret(h, b) == [ h |-> h, ret |-> b, err |-> "" ]
Throw(h, e) == [ h |-> h, ret |-> 0, err |-> e ]

QueryNodeOf(h, b) == h.nodes[h.builders[b].queryNode]

\* new InsertQueryBuilder(props): the props are frozen and kept.
NewBuilder(h, props, from, op, arg) ==
    Ret([ h EXCEPT !.builders = Append(@, props),
                   !.origin = Append(@, [parent |-> from, op |-> op, arg |-> arg]) ],
        Len(h.builders) + 1)

\* new InsertQueryBuilder({...this.#props, queryNode: node})
WithQueryNode(h, b, node, op, arg) ==
    NewBuilder([ h EXCEPT !.nodes = Append(@, node) ],
               [ h.builders[b] EXCEPT !.queryNode = Len(h.nodes) + 1 ],
               b, op, arg)

\* ------------------------------------------------------- builder methods
\* values() as it would be if it edited the receiver's root and returned this
values_inPlace(h, b, insert) ==
    LET parsed == parseInsertExpression(insert)
    IN IF parsed.err # ""
         THEN Throw(h, parsed.err)
         ELSE Ret([ h EXCEPT !.nodes[h.builders[b].queryNode] =
                        cloneWith(QueryNodeOf(h, b),
                            [ columns |-> Some(parsed.columns),
                              values |-> Some(parsed.values) ]) ],
                  b)

\* values() as it would be if it kept a column order fixed earlier
values_keepsColumns(h, b, insert) ==
    LET parsed == parseInsertExpression(insert)
    IN IF parsed.err # ""
         THEN Throw(h, parsed.err)
         ELSE WithQueryNode(h, b,
                  cloneWith(QueryNodeOf(h, b),
                      [ columns |-> IF IsSome(QueryNodeOf(h, b).columns)
                                      THEN QueryNodeOf(h, b).columns
                                      ELSE Some(parsed.columns),
                        values |-> Some(parsed.values) ]),
                  "values", insert.rows)

values(h, b, insert) ==
    LET parsed == parseInsertExpression(insert)
    IN IF parsed.err # ""
         THEN Throw(h, parsed.err)
         ELSE WithQueryNode(h, b,
                  cloneWith(QueryNodeOf(h, b),
                      [ columns |-> Some(parsed.columns),
                        values |-> Some(parsed.values) ]),
                  "values", insert.rows)

columns(h, b, cols) ==
    WithQueryNode(h, b, cloneWith(QueryNodeOf(h, b), [ columns |-> Some(cols) ]),
                  "columns", cols)

expression(h, b) ==
    WithQueryNode(h, b,
        cloneWith(QueryNodeOf(h, b), [ values |-> Some(<<"expression">>) ]),
        "expression", <<>>)

ignore(h, b) ==
    WithQueryNode(h, b, cloneWith(QueryNodeOf(h, b), [ ignore |-> TRUE ]),
                  "ignore", <<>>)

\* onConflict() as it would be if the callback started from the clause the
\* root already has
onConflict_merges(h, b, callback) ==
    WithQueryNode(h, b,
        cloneWith(QueryNodeOf(h, b),
            [ onConflict |->
                Some(RunConflictCallback(callback,
                        IF IsSome(QueryNodeOf(h, b).onConflict)
                          THEN Get(QueryNodeOf(h, b).onConflict)
                          ELSE OnConflictNodeCreate)) ]),
        "onConflict", <<callback>>)

onConflict(h, b, callback) ==
    WithQueryNode(h, b,
        cloneWith(QueryNodeOf(h, b),
            [ onConflict |-> Some(RunConflictCallback(callback, OnConflictNodeCreate)) ]),
        "onConflict", <<callback>>)

onDuplicateKeyUpdate(h, b) ==
    WithQueryNode(h, b,
        cloneWith(QueryNodeOf(h, b), [ onDuplicateKey |-> Some(<<"updated_at">>) ]),
        "onDuplicateKeyUpdate", <<>>)

returning(h, b) ==
    WithQueryNode(h, b, cloneWithReturning(QueryNodeOf(h, b), <<"id">>),
                  "returning", <<>>)

returningAll(h, b) ==
    WithQueryNode(h, b, cloneWithReturning(QueryNodeOf(h, b), <<"*">>),
                  "returningAll", <<>>)

\* func(qb) for the transforms handed to $if
ApplyFunc(h, func, qb) ==
    CASE func = "self" -> Ret(h, qb)
      [] func = "ignore" -> ignore(h, qb)
      [] func = "returningAll" -> returningAll(h, qb)

\* $if as it would be if it applied func whatever the condition
dollarIf_ignoresCondition(h, b, condition, func) ==
    LET f == ApplyFunc(h, func, b)
    IN [ r |-> f, funcArgs |-> <<b>>, funcRets |-> <<f.ret>> ]

\* $if: the result r, with the calls made to func (its arguments) and what
\* they returned
dollarIf(h, b, condition, func) ==
    IF condition
      THEN LET f == ApplyFunc(h, func, b)
           IN [ r |-> f, funcArgs |-> <<b>>, funcRets |-> <<f.ret>> ]
      ELSE [ r |-> NewBuilder(h, h.builders[b], b, "$if", <<>>),
             funcArgs |-> <<>>, funcRets |-> <<>> ]

if(h, b, condition, func) == dollarIf(h, b, condition, func)

dollarCastTo(h, b) == NewBuilder(h, h.builders[b], b, "$castTo", <<>>)

castTo(h, b) == dollarCastTo(h, b)

dollarAssertType(h, b) == NewBuilder(h, h.builders[b], b, "$assertType", <<>>)

assertType(h, b) == NewBuilder(h, h.builders[b], b, "assertType", <<>>)

\* executor.withPlugin(plugin): a new executor, the plugin appended
ExecutorWithPlugin(executor, plugin) ==
    [ executor EXCEPT !.plugins = Append(@, plugin) ]

\* withPlugin() as it would be if the plugin were installed on the receiver's
\* own executor
withPlugin_inPlace(h, b, plugin) ==
    NewBuilder(
        [ h EXCEPT !.executors[h.builders[b].executor] = ExecutorWithPlugin(@, plugin) ],
        h.builders[b],
        b, "withPlugin", <<plugin>>)

withPlugin(h, b, plugin) ==
    NewBuilder(
        [ h EXCEPT !.executors =
              Append(@, ExecutorWithPlugin(h.executors[h.builders[b].executor], plugin)) ],
        [ h.builders[b] EXCEPT !.executor = Len(h.executors) + 1 ],
        b, "withPlugin", <<plugin>>)

\* --------------------------------------------------------------- actions
\* The builder a top-level insertInto hands out.
RootHeap(plugins, queryId) ==
    [ builders |-> << [ queryId |-> queryId, queryNode |-> 1, executor |-> 1 ] >>,
      nodes |-> << InsertQueryNodeCreate("person") >>,
      executors |-> << [ plugins |-> plugins ] >>,
      origin |-> << [ parent |-> 0, op |-> "insertInto", arg |-> <<>> ] >> ]

NoCall ==
    [ op |-> "none", recv |-> 0, arg |-> <<>>, ret |-> 0, err |-> "",
      funcArgs |-> <<>>, funcRets |-> <<>> ]

InitHeap ==
    /\ builders = RootHeap(<<>>, "q1").builders
    /\ nodes = RootHeap(<<>>, "q1").nodes
    /\ executors = RootHeap(<<>>, "q1").executors
    /\ origin = RootHeap(<<>>, "q1").origin
    /\ supportsReturning \in BOOLEAN
    /\ last = NoCall

Receivers == 1..Len(builders)
Room == Len(builders) < MaxBuilders

\* The heap and the record of the call after a builder method returned r.
Commit(op, b, arg, r, funcArgs, funcRets) ==
    /\ builders' = r.h.builders
    /\ nodes' = r.h.nodes
    /\ executors' = r.h.executors
    /\ origin' = r.h.origin
    /\ last' = [ op |-> op, recv |-> b, arg |-> arg, ret |-> r.ret, err |-> r.err,
                 funcArgs |-> funcArgs, funcRets |-> funcRets ]
    /\ UNCHANGED <<supportsReturning, run, log>>

Call_values ==
    \E b \in Receivers, insert \in InsertExprs :
        Room /\ Commit("values", b, insert, values(Heap, b, insert), <<>>, <<>>)

Call_columns ==
    \E b \in Receivers, cols \in ColumnLists :
        Room /\ Commit("columns", b, cols, columns(Heap, b, cols), <<>>, <<>>)

Call_expression ==
    \E b \in Receivers :
        Room /\ Commit("expression", b, <<>>, expression(Heap, b), <<>>, <<>>)

Call_ignore ==
    \E b \in Receivers :
        Room /\ Commit("ignore", b, <<>>, ignore(Heap, b), <<>>, <<>>)

Call_onConflict ==
    \E b \in Receivers, callback \in ConflictCallbacks :
        Room /\ Commit("onConflict", b, callback, onConflict(Heap, b, callback), <<>>, <<>>)

Call_onDuplicateKeyUpdate ==
    \E b \in Receivers :
        Room /\ Commit("onDuplicateKeyUpdate", b, <<>>, onDuplicateKeyUpdate(Heap, b), <<>>, <<>>)

Call_returning ==
    \E b \in Receivers :
        Room /\ Commit("returning", b, <<>>, returning(Heap, b), <<>>, <<>>)

Call_returningAll ==
    \E b \in Receivers :
        Room /\ Commit("returningAll", b, <<>>, returningAll(Heap, b), <<>>, <<>>)

Call_dollarIf ==
    \E b \in Receivers, condition \in BOOLEAN, func \in Funcs :
        LET res == dollarIf(Heap, b, condition, func)
        IN Room /\ Commit("$if", b, [ condition |-> condition, func |-> func ],
                          res.r, res.funcArgs, res.funcRets)

Call_if ==
    \E b \in Receivers, condition \in BOOLEAN, func \in Funcs :
        LET res == if(Heap, b, condition, func)
        IN Room /\ Commit("if", b, [ condition |-> condition, func |-> func ],
                          res.r, res.funcArgs, res.funcRets)

Call_dollarCastTo ==
    \E b \in Receivers :
        Room /\ Commit("$castTo", b, <<>>, dollarCastTo(Heap, b), <<>>, <<>>)

Call_castTo ==
    \E b \in Receivers :
        Room /\ Commit("castTo", b, <<>>, castTo(Heap, b), <<>>, <<>>)

Call_dollarAssertType ==
    \E b \in Receivers :
        Room /\ Commit("$assertType", b, <<>>, dollarAssertType(Heap, b), <<>>, <<>>)

Call_assertType ==
    \E b \in Receivers :
        Room /\ Commit("assertType", b, <<>>, assertType(Heap, b), <<>>, <<>>)

Call_withPlugin ==
    \E b \in Receivers, plugin \in Plugins :
        Room /\ Commit("withPlugin", b, plugin, withPlugin(Heap, b, plugin), <<>>, <<>>)

\* ------------------------------------------------- executor (collaborator)
\* One plugin's transformQuery hook.
PluginTransformQuery(plugin, node) ==
    CASE plugin = "dropReturning" -> [ node EXCEPT !.returning = None ]
      [] plugin = "withSchema" -> [ node EXCEPT !.schema = Some("s") ]

RECURSIVE ApplyPlugins(_, _)
ApplyPlugins(plugins, node) ==
    IF plugins = <<>> THEN node
    ELSE ApplyPlugins(Tail(plugins), PluginTransformQuery(Head(plugins), node))

\* executor.transformQuery(node, queryId): every plugin's hook, in order
transformQuery(executor, node, queryId) == ApplyPlugins(executor.plugins, node)

\* executor.compileQuery(node, queryId): the compiled query keeps the root it
\* was compiled from.
compileQuery(executor, node, queryId) ==
    [ query |-> node, sql |-> <<"insert into", node.into>> ]

\* The raw results executor.executeQuery may resolve with: rows 1..n in
\* driver order, and the counters a driver may or may not report.
Rows(from, n) == [ i \in 1..n |-> [ kind |-> "row", id |-> from + i ] ]

DriverResults ==
    { [ rows |-> Rows(0, n), insertId |-> i, numAffectedRows |-> a,
        numUpdatedOrDeletedRows |-> u ] :
          n \in 0..MaxRows, i \in { None, Some(7) }, a \in { None, Some(1) },
          u \in { None, Some(2) } }

DriverError == [ type |-> "DriverError", node |-> None ]

\* One call made to the executor.
Entry(fn, executor, queryId, arg) ==
    [ fn |-> fn, executor |-> executor, queryId |-> queryId, arg |-> arg ]

\* --------------------------------------------------- terminal operations
DefaultChunkSize == 100

ErrorArgs == { "default", "constructor", "callback" }
ChunkSizeArgs == { None, Some(2) }
ExplainFormats == { "json" }

Props(h, b) == h.builders[b]
ExecutorOf(h, b) == h.executors[h.builders[b].executor]

\* toOperationNode(): [node, log]
toOperationNode(h, b) ==
    LET node == transformQuery(ExecutorOf(h, b), QueryNodeOf(h, b), Props(h, b).queryId)
    IN [ node |-> node,
         log |-> << Entry("transformQuery", Props(h, b).executor, Props(h, b).queryId,
                          QueryNodeOf(h, b)) >> ]

\* compile() as it would be if it compiled the builder's own root, leaving
\* the transformed one aside
compile_untransformed(h, b) ==
    LET t == toOperationNode(h, b)
    IN [ compiled |-> compileQuery(ExecutorOf(h, b), QueryNodeOf(h, b), Props(h, b).queryId),
         log |-> t.log \o << Entry("compileQuery", Props(h, b).executor,
                                   Props(h, b).queryId, QueryNodeOf(h, b)) >> ]

\* compile(): [compiled, log]
compile(h, b) ==
    LET t == toOperationNode(h, b)
    IN [ compiled |-> compileQuery(ExecutorOf(h, b), t.node, Props(h, b).queryId),
         log |-> t.log \o << Entry("compileQuery", Props(h, b).executor,
                                   Props(h, b).queryId, t.node) >> ]

\* execute() up to its await: [compiled, log]
executeDispatch(h, b) ==
    LET c == compile(h, b)
    IN [ compiled |-> c.compiled,
         log |-> c.log \o << Entry("executeQuery", Props(h, b).executor,
                                   Props(h, b).queryId, c.compiled) >> ]

InsertResult(insertId, numAffectedRows) ==
    [ kind |-> "InsertResult", insertId |-> insertId,
      numAffectedRows |-> numAffectedRows ]

\* a ?? b
Coalesce(a, b) == IF IsSome(a) THEN a ELSE b

\* execute() as it would be if it did not ask the adapter
executeReturn_ignoresAdapter(compiledQuery, result) ==
    IF IsSome(compiledQuery.query.returning)
      THEN result.rows
      ELSE << InsertResult(result.insertId,
                  Coalesce(result.numAffectedRows, result.numUpdatedOrDeletedRows)) >>

\* execute() as it would be if it synthesized no result for a driver that
\* reported neither an insert id nor a count
executeReturn_nothingToReport(compiledQuery, result) ==
    IF supportsReturning /\ IsSome(compiledQuery.query.returning)
      THEN result.rows
      ELSE IF result.insertId = None
                /\ Coalesce(result.numAffectedRows, result.numUpdatedOrDeletedRows) = None
             THEN <<>>
             ELSE << InsertResult(result.insertId,
                         Coalesce(result.numAffectedRows, result.numUpdatedOrDeletedRows)) >>

\* execute() after its await: what it returns for the driver's result
executeReturn(compiledQuery, result) ==
    IF supportsReturning /\ IsSome(compiledQuery.query.returning)
      THEN result.rows
      ELSE << InsertResult(result.insertId,
                  Coalesce(result.numAffectedRows, result.numUpdatedOrDeletedRows)) >>

\* executeTakeFirst(): const [result] = await this.execute()
executeTakeFirst(executed) ==
    IF Len(executed) >= 1 THEN Some(executed[1]) ELSE None

isNoResultErrorConstructor(errorConstructor) ==
    errorConstructor \in { "default", "constructor" }

\* new errorConstructor(node), or errorConstructor(node)
MakeError(errorConstructor, node) ==
    IF isNoResultErrorConstructor(errorConstructor)
      THEN [ type |-> IF errorConstructor = "default" THEN "NoResultError"
                                                      ELSE "CustomError",
             node |-> Some(node) ]
      ELSE [ type |-> "CallbackError", node |-> Some(node) ]

\* executeTakeFirstOrThrow() as it would be if it dropped its argument
executeTakeFirstOrThrow_defaultOnly(h, b, first, errorConstructor) ==
    IF first = None
      THEN LET t == toOperationNode(h, b)
           IN [ outcome |-> [ kind |-> "throw", value |-> MakeError("default", t.node) ],
                log |-> t.log ]
      ELSE [ outcome |-> [ kind |-> "return", value |-> Get(first) ], log |-> <<>> ]

\* executeTakeFirstOrThrow() after executeTakeFirst: [outcome, log]
executeTakeFirstOrThrow(h, b, first, errorConstructor) ==
    IF first = None
      THEN LET t == toOperationNode(h, b)
           IN [ outcome |-> [ kind |-> "throw", value |-> MakeError(errorConstructor, t.node) ],
                log |-> t.log ]
      ELSE [ outcome |-> [ kind |-> "return", value |-> Get(first) ], log |-> <<>> ]

NoOutcome == [ kind |-> "none", value |-> <<>> ]

RunBase(op, b, target) ==
    [ op |-> op, pc |-> "idle", b |-> b, target |-> target, errArg |-> "default",
      chunkSizeArg |-> None, chunkSize |-> 0, compiled |-> None, result |-> None, executed |-> None,
      outcome |-> NoOutcome, failed |-> FALSE,
      buffer |-> <<>>, yielded |-> <<>>, delivered |-> <<>>, chunkStart |-> 0,
      chunks |-> 0, requests |-> 0, pulls |-> 0, pending |-> FALSE, closed |-> FALSE ]

Idle == RunBase("none", 0, 0)

\* No terminal operation is in flight, and none has left an outcome.
Quiet == run.pc = "idle"

HeapUnchanged == UNCHANGED <<builders, nodes, executors, origin>>

Call_toOperationNode ==
    \E b \in Receivers :
        LET t == toOperationNode(Heap, b)
        IN /\ Quiet
           /\ run' = [ RunBase("toOperationNode", b, b) EXCEPT
                         !.pc = "done",
                         !.outcome = [ kind |-> "return", value |-> t.node ] ]
           /\ log' = t.log
           /\ HeapUnchanged /\ UNCHANGED <<supportsReturning, last>>

Call_compile ==
    \E b \in Receivers :
        LET c == compile(Heap, b)
        IN /\ Quiet
           /\ run' = [ RunBase("compile", b, b) EXCEPT
                         !.pc = "done", !.compiled = Some(c.compiled),
                         !.outcome = [ kind |-> "return", value |-> c.compiled ] ]
           /\ log' = c.log
           /\ HeapUnchanged /\ UNCHANGED <<supportsReturning, last>>

\* An execute-family method runs up to the await of executor.executeQuery.
Dispatch(op, b, errArg) ==
    LET d == executeDispatch(Heap, b)
    IN /\ Quiet
       /\ run' = [ RunBase(op, b, b) EXCEPT
                     !.pc = "awaitExecuteQuery", !.errArg = errArg,
                     !.compiled = Some(d.compiled) ]
       /\ log' = d.log
       /\ HeapUnchanged /\ UNCHANGED <<supportsReturning, last>>

Call_execute == \E b \in Receivers : Dispatch("execute", b, "default")

Call_executeTakeFirst == \E b \in Receivers : Dispatch("executeTakeFirst", b, "default")

Call_executeTakeFirstOrThrow ==
    \E b \in Receivers, errorConstructor \in ErrorArgs :
        Dispatch("executeTakeFirstOrThrow", b, errorConstructor)

\* explain() as it would be if the temporary builder got a query id of its own
explain_newQueryId(h, b, format) ==
    LET made == NewBuilder(
                    [ h EXCEPT !.nodes = Append(@, cloneWithExplain(QueryNodeOf(h, b), format)) ],
                    [ h.builders[b] EXCEPT !.queryNode = Len(h.nodes) + 1,
                                           !.queryId = "q0" ],
                    b, "explain", <<format>>)
    IN [ h |-> made.h, builder |-> made.ret, d |-> executeDispatch(made.h, made.ret) ]

\* explain(): the temporary builder, then its execute() up to the await
explain(h, b, format) ==
    LET made == WithQueryNode(h, b, cloneWithExplain(QueryNodeOf(h, b), format),
                              "explain", <<format>>)
    IN [ h |-> made.h, builder |-> made.ret, d |-> executeDispatch(made.h, made.ret) ]

Call_explain ==
    \E b \in Receivers, format \in ExplainFormats :
        LET e == explain(Heap, b, format)
        IN /\ Quiet /\ Room
           /\ builders' = e.h.builders
           /\ nodes' = e.h.nodes
           /\ executors' = e.h.executors
           /\ origin' = e.h.origin
           /\ run' = [ RunBase("explain", b, e.builder) EXCEPT
                         !.pc = "awaitExecuteQuery", !.compiled = Some(e.d.compiled) ]
           /\ log' = e.d.log
           /\ UNCHANGED <<supportsReturning, last>>

\* The method in flight after executor.executeQuery resolved with result:
\* [executed, outcome, log]
executeResolved(h, r, result) ==
    LET executed == executeReturn(Get(r.compiled), result)
    IN CASE r.op \in { "execute", "explain" } ->
              [ executed |-> executed,
                outcome |-> [ kind |-> "return", value |-> executed ], log |-> <<>> ]
         [] r.op = "executeTakeFirst" ->
              [ executed |-> executed,
                outcome |-> [ kind |-> "return", value |-> executeTakeFirst(executed) ],
                log |-> <<>> ]
         [] r.op = "executeTakeFirstOrThrow" ->
              LET t == executeTakeFirstOrThrow(h, r.target, executeTakeFirst(executed),
                                               r.errArg)
              IN [ executed |-> executed, outcome |-> t.outcome, log |-> t.log ]

\* The same if a failed dispatch were taken for an empty result
executeRejected_asNoRows(h, r, error) ==
    IF r.op = "executeTakeFirstOrThrow"
      THEN LET t == executeTakeFirstOrThrow(h, r.target, None, r.errArg)
           IN [ executed |-> None, outcome |-> t.outcome, log |-> t.log ]
      ELSE [ executed |-> None,
             outcome |-> [ kind |-> "return", value |-> << InsertResult(None, None) >> ],
             log |-> <<>> ]

\* The method in flight after executor.executeQuery rejected with error:
\* nothing catches it.
executeRejected(h, r, error) ==
    [ executed |-> None, outcome |-> [ kind |-> "throw", value |-> error ],
      log |-> <<>> ]

ExecuteQuery_resolves ==
    \E result \in DriverResults :
        LET x == executeResolved(Heap, run, result)
        IN /\ run.pc = "awaitExecuteQuery"
           /\ run' = [ run EXCEPT !.pc = "done", !.result = Some(result),
                                  !.executed = Some(x.executed), !.outcome = x.outcome ]
           /\ log' = log \o x.log
           /\ HeapUnchanged /\ UNCHANGED <<supportsReturning, last>>

ExecuteQuery_rejects ==
    LET x == executeRejected(Heap, run, DriverError)
    IN /\ run.pc = "awaitExecuteQuery"
       /\ run' = [ run EXCEPT !.pc = "done", !.failed = TRUE,
                              !.executed = x.executed, !.outcome = x.outcome ]
       /\ log' = log \o x.log
       /\ HeapUnchanged /\ UNCHANGED <<supportsReturning, last>>

\* ------------------------------------------------------------- stream()
Min(a, b) == IF a < b THEN a ELSE b

\* stream(chunkSize = 100): calling it only creates the generator.
stream(b, chunkSizeArg) ==
    [ RunBase("stream", b, b) EXCEPT
        !.pc = "suspendedStart", !.chunkSizeArg = chunkSizeArg,
        !.chunkSize = IF IsSome(chunkSizeArg) THEN Get(chunkSizeArg)
                                               ELSE DefaultChunkSize ]

\* The consumer's first next(): the body runs to the first chunk request.
\* [r, log]
streamStart(h, r) ==
    LET c == compile(h, r.target)
    IN [ r |-> [ r EXCEPT !.pc = "awaitChunk", !.compiled = Some(c.compiled),
                          !.requests = @ + 1, !.pulls = @ + 1, !.pending = TRUE ],
         log |-> c.log \o << Entry("stream", Props(h, r.target).executor,
                                   Props(h, r.target).queryId,
                                   [ compiled |-> c.compiled, chunkSize |-> r.chunkSize ]) >> ]

\* next() as it would be if the next chunk were fetched ahead, as soon as
\* the last row of the held chunk is handed over
streamNext_prefetch(r) ==
    IF r.buffer # <<>>
      THEN [ r EXCEPT !.yielded = Append(@, Head(r.buffer)), !.buffer = Tail(@),
                      !.pulls = @ + 1,
                      !.requests = IF Tail(r.buffer) = <<>> THEN @ + 1 ELSE @ ]
      ELSE [ r EXCEPT !.pc = "awaitChunk", !.requests = @ + 1, !.pulls = @ + 1,
                      !.pending = TRUE ]

\* A later next(): yield* hands over the next row of the chunk it holds, or
\* the for-await asks the executor's stream for the next chunk.
streamNext(r) ==
    IF r.buffer # <<>>
      THEN [ r EXCEPT !.yielded = Append(@, Head(r.buffer)), !.buffer = Tail(@),
                      !.pulls = @ + 1 ]
      ELSE [ r EXCEPT !.pc = "awaitChunk", !.requests = @ + 1, !.pulls = @ + 1,
                      !.pending = TRUE ]

\* The same if only the first row of a chunk were yielded (yield, not yield*)
streamChunk_firstRowOnly(r, item) ==
    IF item.rows # <<>>
      THEN [ r EXCEPT !.pc = "suspendedYield", !.chunks = @ + 1,
                      !.delivered = @ \o item.rows, !.chunkStart = Len(r.delivered),
                      !.yielded = Append(@, Head(item.rows)),
                      !.buffer = <<>>, !.pending = FALSE ]
      ELSE [ r EXCEPT !.chunks = @ + 1, !.chunkStart = Len(r.delivered),
                      !.requests = @ + 1 ]

\* The executor's stream delivered item: yield* item.rows.  An empty chunk
\* yields nothing and the next one is asked for.
streamChunk(r, item) ==
    IF item.rows # <<>>
      THEN [ r EXCEPT !.pc = "suspendedYield", !.chunks = @ + 1,
                      !.delivered = @ \o item.rows, !.chunkStart = Len(r.delivered),
                      !.yielded = Append(@, Head(item.rows)),
                      !.buffer = Tail(item.rows), !.pending = FALSE ]
      ELSE [ r EXCEPT !.chunks = @ + 1, !.chunkStart = Len(r.delivered),
                      !.requests = @ + 1 ]

\* The executor's stream is exhausted: the generator returns.
streamEnd(r) ==
    [ r EXCEPT !.pc = "done", !.pending = FALSE,
               !.outcome = [ kind |-> "return", value |-> <<>> ] ]

\* The executor's stream failed: the error leaves the generator.
streamFail(r, error) ==
    [ r EXCEPT !.pc = "done", !.pending = FALSE, !.failed = TRUE,
               !.outcome = [ kind |-> "throw", value |-> error ] ]

\* The consumer abandons the sequence: return() on the suspended generator.
streamReturn(r) ==
    [ r EXCEPT !.pc = "done", !.closed = TRUE, !.buffer = <<>>,
               !.outcome = [ kind |-> "return", value |-> <<>> ] ]

Call_stream ==
    \E b \in Receivers, chunkSizeArg \in ChunkSizeArgs :
        /\ Quiet
        /\ run' = stream(b, chunkSizeArg)
        /\ log' = <<>>
        /\ HeapUnchanged /\ UNCHANGED <<supportsReturning, last>>

Consumer_first_next ==
    LET s == streamStart(Heap, run)
    IN /\ run.op = "stream" /\ run.pc = "suspendedStart"
       /\ run' = s.r
       /\ log' = log \o s.log
       /\ HeapUnchanged /\ UNCHANGED <<supportsReturning, last>>

Consumer_next ==
    /\ run.op = "stream" /\ run.pc = "suspendedYield"
    /\ run' = streamNext(run)
    /\ HeapUnchanged /\ UNCHANGED <<supportsReturning, last, log>>

Consumer_return ==
    /\ run.op = "stream" /\ run.pc \in { "suspendedStart", "suspendedYield" }
    /\ run' = streamReturn(run)
    /\ HeapUnchanged /\ UNCHANGED <<supportsReturning, last, log>>

Stream_delivers ==
    \E n \in 0..Min(run.chunkSize, MaxRows) :
        /\ run.op = "stream" /\ run.pc = "awaitChunk"
        /\ run.chunks < MaxChunks
        /\ run' = streamChunk(run, [ rows |-> Rows(Len(run.delivered), n) ])
        /\ HeapUnchanged /\ UNCHANGED <<supportsReturning, last, log>>

Stream_ends ==
    /\ run.op = "stream" /\ run.pc = "awaitChunk"
    /\ run' = streamEnd(run)
    /\ HeapUnchanged /\ UNCHANGED <<supportsReturning, last, log>>

Stream_fails ==
    /\ run.op = "stream" /\ run.pc = "awaitChunk"
    /\ run' = streamFail(run, DriverError)
    /\ HeapUnchanged /\ UNCHANGED <<supportsReturning, last, log>>

\* The caller is done with the outcome of a finished terminal operation.
Outcome_taken ==
    /\ run.pc = "done"
    /\ run' = Idle
    /\ log' = <<>>
    /\ HeapUnchanged /\ UNCHANGED <<supportsReturning, last>>

\* ------------------------------------------------------ specifications
InitBuild == InitHeap /\ run = Idle /\ log = <<>>

NextBuild ==
    \/ Call_values
    \/ Call_columns
    \/ Call_expression
    \/ Call_ignore
    \/ Call_onConflict
    \/ Call_onDuplicateKeyUpdate
    \/ Call_returning
    \/ Call_returningAll
    \/ Call_dollarIf
    \/ Call_if
    \/ Call_dollarCastTo
    \/ Call_castTo
    \/ Call_dollarAssertType
    \/ Call_assertType
    \/ Call_withPlugin
    \/ Call_explain

SpecBuild == InitBuild /\ [][NextBuild]_vars

\* The calls that lead to a builder a terminal operation is run on.
FirstCalls == { "none", "values", "returning", "withSchema" }

FirstCall(h, c) ==
    CASE c = "none" -> Ret(h, 1)
      [] c = "values" ->
            values(h, 1, [isArray |-> TRUE, rows |-> << <<"a", "b">>, <<"b", "a">> >>])
      [] c = "returning" -> returning(h, 1)
      [] c = "withSchema" -> withPlugin(h, 1, "withSchema")

\* The plugins the root builder's executor was created with.
RootPlugins == { <<>>, <<"dropReturning">> }

\* A root builder and one builder derived from it, before any terminal
\* operation.
Init ==
    /\ \E plugins \in RootPlugins, queryId \in QueryIds, c \in FirstCalls :
          LET r == FirstCall(RootHeap(plugins, queryId), c)
          IN /\ builders = r.h.builders
             /\ nodes = r.h.nodes
             /\ executors = r.h.executors
             /\ origin = r.h.origin
    /\ supportsReturning \in BOOLEAN
    /\ last = NoCall
    /\ run = Idle
    /\ log = <<>>

Next ==
    \/ Call_toOperationNode
    \/ Call_compile
    \/ Call_execute
    \/ Call_executeTakeFirst
    \/ Call_executeTakeFirstOrThrow
    \/ Call_explain
    \/ ExecuteQuery_resolves
    \/ ExecuteQuery_rejects
    \/ Call_stream
    \/ Consumer_first_next
    \/ Consumer_next
    \/ Consumer_return
    \/ Stream_delivers
    \/ Stream_ends
    \/ Stream_fails
    \/ Outcome_taken

Spec == Init /\ [][Next]_vars

\* ----------------------------------------------------------------- claims

ExecutorFns == { "transformQuery", "compileQuery", "executeQuery", "stream" }

\* C2: every builder derived from the root builder holds the root's query id
\* (the temporary builder of explain() included), and every call a terminal
\* operation makes to the executor is passed that id.
C2_QueryIdThreaded ==
    /\ \A i \in 1..Len(builders) : builders[i].queryId = builders[1].queryId
    /\ \A k \in 1..Len(log) :
          /\ log[k].fn \in ExecutorFns
          /\ log[k].queryId = builders[1].queryId
    /\ run.pc = "awaitExecuteQuery" => Len(log) = 3
    /\ run.pc = "awaitChunk" => Len(log) = 3

\* explain() on a derived builder of query q2 has dispatched its temporary
\* builder's query.
C2_Witness ==
    /\ run.op = "explain" /\ run.pc = "done"
    /\ run.b = 2 /\ run.target = 3
    /\ builders[1].queryId = "q2"
    /\ origin[3].op = "explain"
    /\ Len(log) = 3 /\ log[3].fn = "executeQuery"

\* C7: $if and if with a false condition never invoke func and return a
\* builder with the receiver's root, query id and executor; with a true
\* condition they invoke func once, with the receiver, and return what it
\* returned.
C7_ConditionalAttach ==
    (last.op \in { "$if", "if" }) =>
        IF ~last.arg.condition
          THEN /\ last.funcArgs = <<>> /\ last.funcRets = <<>>
               /\ last.err = ""
               /\ last.ret \in 1..Len(builders)
               /\ builders[last.ret] = builders[last.recv]
          ELSE /\ last.funcArgs = << last.recv >>
               /\ last.funcRets = << last.ret >>
               /\ last.arg.func = "self" => last.ret = last.recv
               /\ last.arg.func = "ignore" =>
                     /\ origin[last.ret] = [ parent |-> last.recv, op |-> "ignore", arg |-> <<>> ]
                     /\ nodes[builders[last.ret].queryNode].ignore
               /\ last.arg.func = "returningAll" =>
                     /\ origin[last.ret].parent = last.recv
                     /\ origin[last.ret].op = "returningAll"
                     /\ IsSome(nodes[builders[last.ret].queryNode].returning)

\* $if(false, func) on a builder that has a returning clause.
C7_Witness ==
    /\ last.op = "$if" /\ ~last.arg.condition /\ last.arg.func = "ignore"
    /\ last.recv = 2 /\ last.ret = 3
    /\ IsSome(nodes[builders[2].queryNode].returning)
    /\ ~nodes[builders[3].queryNode].ignore

RECURSIVE LastConflictCallback(_)
\* The callback of the last onConflict call on the chain that led to b.
LastConflictCallback(b) ==
    IF b = 0 THEN None
    ELSE IF origin[b].op = "onConflict" THEN origin[b].arg
    ELSE LastConflictCallback(origin[b].parent)

\* The clause each callback builds when it starts from an empty conflict node.
ClauseFromEmpty(callback) ==
    CASE callback = "column_doNothing" ->
            [ columns |-> Some(<<"id">>), constraint |-> None,
              doNothing |-> TRUE, updates |-> None ]
      [] callback = "column_doUpdateSet" ->
            [ columns |-> Some(<<"id">>), constraint |-> None,
              doNothing |-> FALSE, updates |-> Some(<<"first_name">>) ]
      [] callback = "constraint_doNothing" ->
            [ columns |-> None, constraint |-> Some("pk"),
              doNothing |-> TRUE, updates |-> None ]

\* C8: the conflict clause of every builder's root is the clause the last
\* onConflict call of its chain built from an empty conflict node (none when
\* there was no such call): nothing of an earlier clause is left in it.
C8_LastConflictWins ==
    \A b \in 1..Len(builders) :
        LET callback == LastConflictCallback(b)
            clause == nodes[builders[b].queryNode].onConflict
        IN IF callback = None
             THEN clause = None
             ELSE /\ clause = Some(ClauseFromEmpty(Get(callback)))
                  /\ ~(Get(clause).doNothing /\ IsSome(Get(clause).updates))

\* A do-nothing on a constraint attached after a do-update on a column.
C8_Witness ==
    \E b \in 1..Len(builders) :
        /\ origin[b].op = "onConflict" /\ origin[b].arg = << "constraint_doNothing" >>
        /\ origin[b].parent > 0
        /\ origin[origin[b].parent].op = "onConflict"
        /\ origin[origin[b].parent].arg = << "column_doUpdateSet" >>
        /\ Get(nodes[builders[b].queryNode].onConflict).updates = None

RECURSIVE ColumnsSetBy(_)
\* The method that last set the columns on the chain that led to b.
ColumnsSetBy(b) ==
    IF b = 0 THEN "none"
    ELSE IF origin[b].op \in { "columns", "values" } THEN origin[b].op
    ELSE ColumnsSetBy(origin[b].parent)

SeqSet(q) == { q[i] : i \in 1..Len(q) }

\* Some row does not have exactly the columns of the fixed column order.
Irreconcilable(cols, insert) ==
    \E r \in 1..Len(insert.rows) : SeqSet(insert.rows[r]) # SeqSet(cols)

\* values() was just called on a builder whose columns an explicit columns()
\* call fixed.
ValuesAfterColumns == last.op = "values" /\ ColumnsSetBy(last.recv) = "columns"

\* C9 as stated: values() with rows irreconcilable with a column order fixed
\* by columns() fails with a Shape Error at the call and produces no builder.
C9_AsStated ==
    ( /\ ValuesAfterColumns
      /\ Irreconcilable(Get(nodes[builders[last.recv].queryNode].columns), last.arg) )
        => (last.err = "ShapeError" /\ last.ret = 0)

\* C9 (amended): values() on a builder whose column order columns() fixed is
\* not checked against that order: for rows the parser accepts it returns at
\* once a new builder whose columns are the ones derived from the rows, in
\* first-seen order, and the receiver keeps its columns.
C9_ValuesReplacesColumns ==
    (ValuesAfterColumns /\ last.arg.rows # <<>>) =>
        /\ last.err = ""
        /\ last.ret \in 1..Len(builders) /\ last.ret > last.recv
        /\ origin[last.ret].op = "values" /\ origin[last.ret].parent = last.recv
        /\ nodes[builders[last.ret].queryNode].columns
              = Some(UnionColumns(last.arg.rows, <<>>))
        /\ origin[last.recv].op = "columns"
              => nodes[builders[last.recv].queryNode].columns = Some(origin[last.recv].arg)

\* columns(['a']) then values([{a, b}, {b, a}]): a builder with columns a, b.
C9_Witness ==
    /\ ValuesAfterColumns
    /\ nodes[builders[last.recv].queryNode].columns = Some(<<"a">>)
    /\ Irreconcilable(<<"a">>, last.arg)
    /\ last.ret > 0
    /\ nodes[builders[last.ret].queryNode].columns = Some(<<"a", "b">>)

\* The execute-family call in flight has settled without a driver failure.
Executed(ops) == run.op \in ops /\ run.pc = "done" /\ ~run.failed

HasReturning == IsSome(Get(run.compiled).query.returning)

\* C3 as stated: execute() returns the driver's rows exactly when the adapter
\* supports returning and the compiled root has a returning clause, and
\* otherwise one synthesized result carrying the driver-reported insertId and
\* numAffectedRows.
C3_AsStated ==
    Executed({ "execute" }) =>
        LET result == Get(run.result)
        IN IF supportsReturning /\ HasReturning
             THEN run.outcome = [ kind |-> "return", value |-> result.rows ]
             ELSE run.outcome =
                    [ kind |-> "return",
                      value |-> << [ kind |-> "InsertResult",
                                     insertId |-> result.insertId,
                                     numAffectedRows |-> result.numAffectedRows ] >> ]

\* C3 (amended): as stated, except that the synthesized result carries the
\* driver's numAffectedRows or, when the driver reports none, its
\* numUpdatedOrDeletedRows.
C3_ExecuteResult ==
    Executed({ "execute" }) =>
        LET result == Get(run.result)
        IN IF supportsReturning /\ HasReturning
             THEN run.outcome = [ kind |-> "return", value |-> result.rows ]
             ELSE /\ run.outcome.kind = "return"
                  /\ Len(run.outcome.value) = 1
                  /\ run.outcome.value[1] =
                        [ kind |-> "InsertResult",
                          insertId |-> result.insertId,
                          numAffectedRows |->
                              IF result.numAffectedRows # None
                                THEN result.numAffectedRows
                                ELSE result.numUpdatedOrDeletedRows ]

\* An insert without returning clause, on a driver that does not support
\* returning and hands back rows: the synthesized result, not the rows.
C3_Witness ==
    /\ Executed({ "execute" })
    /\ ~supportsReturning /\ ~HasReturning
    /\ Len(Get(run.result).rows) = 2
    /\ Get(run.result).insertId = Some(7)
    /\ Get(run.result).numAffectedRows = Some(1)
    /\ Len(run.outcome.value) = 1

\* The AST of the builder the operation was called on, as the executor
\* transforms it.
QueryAst ==
    ApplyPlugins(executors[builders[run.target].executor].plugins,
                 nodes[builders[run.target].queryNode])

\* C4: executeTakeFirstOrThrow fails exactly when execute() yielded no row:
\* with the No-Result Error by default, an instance of the supplied
\* constructor, or the value the supplied callback returned for the query's
\* AST; otherwise it returns the first row.
C4_TakeFirstOrThrow ==
    Executed({ "executeTakeFirstOrThrow" }) =>
        IF Get(run.executed) = <<>>
          THEN /\ run.outcome.kind = "throw"
               /\ run.outcome.value.node = Some(QueryAst)
               /\ run.errArg = "default" => run.outcome.value.type = "NoResultError"
               /\ run.errArg = "constructor" => run.outcome.value.type = "CustomError"
               /\ run.errArg = "callback" => run.outcome.value.type = "CallbackError"
          ELSE run.outcome = [ kind |-> "return", value |-> Get(run.executed)[1] ]

\* Zero rows came back for a returning insert and the callback's error was
\* thrown.
C4_Witness ==
    /\ Executed({ "executeTakeFirstOrThrow" })
    /\ run.errArg = "callback"
    /\ Get(run.executed) = <<>>
    /\ run.outcome.kind = "throw"

\* C5: the rows stream() has yielded, followed by the rows of the chunk it
\* still holds, are the rows the executor's stream delivered, in order; a
\* stream that ran to its end yielded all of them; and the executor is asked
\* for chunks of the given size, 100 when none is given.
C5_StreamYieldsAllRows ==
    (run.op = "stream") =>
        /\ ~run.closed => run.yielded \o run.buffer = run.delivered
        /\ run.closed => run.yielded = SubSeq(run.delivered, 1, Len(run.yielded))
        /\ (run.pc = "done" /\ ~run.closed /\ ~run.failed) => run.yielded = run.delivered
        /\ \A k \in 1..Len(log) :
              log[k].fn = "stream" =>
                  log[k].arg.chunkSize =
                      IF run.chunkSizeArg = None THEN 100 ELSE Get(run.chunkSizeArg)
        /\ run.requests > 0 => \E k \in 1..Len(log) : log[k].fn = "stream"

\* Chunks of 2, 2 and 1 rows were delivered for chunk size 2 and the stream
\* ended: 5 rows yielded.
C5_Witness ==
    /\ run.op = "stream" /\ run.pc = "done" /\ ~run.closed /\ ~run.failed
    /\ run.chunkSize = 2
    /\ run.chunks = 3 /\ run.chunkStart = 4
    /\ Len(run.yielded) = 5

\* C6: stream() compiles nothing and asks for no chunk before the first
\* next(); a chunk is asked for only when every delivered row has been handed
\* over and the consumer has asked for one more; only rows of the latest
\* chunk are held; after the consumer abandoned the stream no chunk is asked
\* for.
C6_StreamIsPullBased ==
    /\ [](run.op = "stream" =>
            /\ run.pc = "suspendedStart" =>
                  (log = <<>> /\ run.requests = 0 /\ run.compiled = None)
            /\ \A i \in 1..Len(run.buffer) : run.buffer[i].id > run.chunkStart
            /\ run.requests <= run.chunks + 1
            /\ run.requests = run.chunks + 1 => run.buffer = <<>>)
    /\ [][ (run.op = "stream" /\ run'.op = "stream" /\ run'.requests > run.requests)
             => /\ run.buffer = <<>>
                /\ run.yielded = run.delivered
                /\ run'.pulls = Len(run.yielded) + 1
                /\ run'.requests = run.requests + 1 ]_vars
    /\ [][ (run.op = "stream" /\ run.closed /\ run'.op = "stream")
             => run'.requests = run.requests ]_vars

\* The consumer abandoned the stream while the first chunk still held a row.
C6_Witness ==
    /\ run.op = "stream" /\ run.closed
    /\ Len(run.yielded) = 1 /\ Len(run.delivered) = 2
    /\ run.requests = 1

ExecuteFamily == { "execute", "executeTakeFirst", "executeTakeFirstOrThrow", "explain" }

\* C10: when executor.executeQuery fails, execute, executeTakeFirst,
\* executeTakeFirstOrThrow and explain fail with that very error: the query
\* was dispatched once, nothing was returned, and no other error took its
\* place.
C10_DriverErrorPropagates ==
    (run.op \in ExecuteFamily /\ run.pc = "done" /\ run.failed) =>
        /\ run.outcome = [ kind |-> "throw", value |-> DriverError ]
        /\ run.executed = None
        /\ Cardinality({ k \in 1..Len(log) : log[k].fn = "executeQuery" }) = 1
        /\ log[Len(log)].fn = "executeQuery"

\* executeTakeFirstOrThrow with a custom error constructor met a driver
\* failure.
C10_Witness ==
    /\ run.op = "executeTakeFirstOrThrow" /\ run.pc = "done" /\ run.failed
    /\ run.errArg = "constructor"
    /\ run.outcome.kind = "throw"

\* What the executor's transformQuery returned for the call logged at k.
TransformedAt(k) == transformQuery(executors[log[k].executor], log[k].arg, log[k].queryId)

\* What the executor's compileQuery returned for the call logged at k.
CompiledAt(k) == compileQuery(executors[log[k].executor], log[k].arg, log[k].queryId)

\* The first two executor calls: transformQuery on the root of the builder
\* the operation runs on, then compileQuery on what that returned.
TransformThenCompile ==
    /\ Len(log) >= 2
    /\ log[1].fn = "transformQuery"
    /\ log[1].executor = builders[run.target].executor
    /\ log[1].arg = nodes[builders[run.target].queryNode]
    /\ log[2].fn = "compileQuery"
    /\ log[2].executor = builders[run.target].executor
    /\ log[2].arg = TransformedAt(1)

\* The third executor call: the dispatch fn, handed what compileQuery returned.
ThenDispatch(fn) ==
    /\ Len(log) >= 3
    /\ log[3].fn = fn
    /\ log[3].executor = builders[run.target].executor
    /\ (IF fn = "stream" THEN log[3].arg.compiled ELSE log[3].arg) = CompiledAt(2)
    /\ \A k \in 1..Len(log) :
          /\ log[k].fn \in { "executeQuery", "stream" } => k = 3
          /\ log[k].fn = "compileQuery" => k = 2
          /\ log[k].fn = "transformQuery" => k \in { 1, 4 }

\* C11: within one execute() or stream() the executor is called in a fixed
\* order and once each: transformQuery on the builder's root, compileQuery
\* on exactly the transformed root, then the dispatch (executeQuery, or
\* stream) with exactly the compiled query; no dispatch comes before the
\* compilation; the methods that await execute() start with the same three
\* calls; and compile() alone makes the first two calls and no dispatch.
C11_PipelineInOrder ==
    /\ run.op = "execute" =>
          (Len(log) = 3 /\ TransformThenCompile /\ ThenDispatch("executeQuery"))
    /\ run.op \in { "executeTakeFirst", "executeTakeFirstOrThrow", "explain" } =>
          (TransformThenCompile /\ ThenDispatch("executeQuery"))
    /\ run.op = "stream" =>
          IF run.pc = "suspendedStart" \/ (run.closed /\ run.requests = 0)
            THEN log = <<>>
            ELSE Len(log) = 3 /\ TransformThenCompile /\ ThenDispatch("stream")
    /\ run.op = "compile" =>
          /\ Len(log) = 2 /\ TransformThenCompile
          /\ run.outcome = [ kind |-> "return", value |-> CompiledAt(2) ]

\* execute() settled on a builder whose plugin rewrites the root: the
\* returning clause of the root is gone from what was compiled and sent.
C11_Witness ==
    /\ run.op = "execute" /\ run.pc = "done" /\ ~run.failed
    /\ IsSome(log[1].arg.returning)
    /\ log[2].arg.returning = None
    /\ log[3].arg.query = log[2].arg

RECURSIVE PluginsAlong(_)
\* The plugins handed to withPlugin on the way from the root builder (which
\* starts with none) to builder b, oldest first.
PluginsAlong(b) ==
    IF origin[b].parent = 0 THEN <<>>
    ELSE IF origin[b].op = "withPlugin"
           THEN Append(PluginsAlong(origin[b].parent), origin[b].arg[1])
           ELSE PluginsAlong(origin[b].parent)

\* Every builder made by withPlugin(p) has its receiver's root and query id
\* and an executor of its own, the receiver's with p appended; every builder
\* made by another method has its receiver's executor.
ExecutorByOrigin ==
    \A b \in 1..Len(builders) :
        LET o == origin[b]
        IN o.parent > 0 =>
             IF o.op = "withPlugin"
               THEN /\ builders[b].queryNode = builders[o.parent].queryNode
                    /\ builders[b].queryId = builders[o.parent].queryId
                    /\ builders[b].executor # builders[o.parent].executor
                    /\ executors[builders[b].executor].plugins =
                          Append(executors[builders[o.parent].executor].plugins, o.arg[1])
               ELSE builders[b].executor = builders[o.parent].executor

\* Compiling any builder applies the plugins attached on its own chain, and
\* no others.
OwnPluginsOnly ==
    \A b \in 1..Len(builders) :
        compile(Heap, b).compiled.query =
            ApplyPlugins(PluginsAlong(b), nodes[builders[b].queryNode])

\* C12: the executor changes only through withPlugin: every other builder
\* method returns a builder with its receiver's executor; withPlugin(p)
\* returns a builder with the receiver's root and query id whose executor is
\* the receiver's with p appended; no executor, the receiver's included,
\* ever changes its plugin list; so compiling a builder applies only the
\* plugins of its own chain, never those of a sibling or a descendant.
C12_ExecutorOnlyByWithPlugin ==
    /\ [](/\ ExecutorByOrigin
          /\ OwnPluginsOnly
          /\ (last.ret > 0 /\ last.op # "withPlugin") =>
                builders[last.ret].executor = builders[last.recv].executor
          /\ (last.ret > 0 /\ last.op = "withPlugin") =>
                /\ last.ret # last.recv
                /\ executors[builders[last.ret].executor].plugins =
                      Append(executors[builders[last.recv].executor].plugins, last.arg))
    /\ [][ \A e \in 1..Len(executors) :
             Len(executors') >= e /\ executors'[e] = executors[e] ]_vars

\* The root, a builder with a plugin attached, and a sibling made by
\* ignore(): the plugin shows in the first builder's compiled query only.
C12_Witness ==
    /\ Len(builders) = 3
    /\ origin[2] = [ parent |-> 1, op |-> "withPlugin", arg |-> <<"withSchema">> ]
    /\ origin[3].parent = 1 /\ origin[3].op = "ignore"
    /\ compile(Heap, 2).compiled.query.schema = Some("s")
    /\ compile(Heap, 3).compiled.query.schema = None
    /\ compile(Heap, 1).compiled.query.schema = None

\* execute() answers the settled call with the synthesized result: the
\* compiled root has no returning clause, or the adapter does not support
\* returning.
Synthesized == ~(supportsReturning /\ HasReturning)

\* C13: when execute() answers with the synthesized one-element result,
\* executeTakeFirst returns that element and never undefined, and
\* executeTakeFirstOrThrow returns it, throws nothing and never calls the
\* error constructor or callback (toOperationNode is not called for one),
\* whatever rows the driver reported.
C13_SynthesizedIsNeverEmpty ==
    /\ (Executed({ "executeTakeFirst" }) /\ Synthesized) =>
          /\ run.outcome.kind = "return"
          /\ run.outcome.value # None
          /\ Get(run.outcome.value).kind = "InsertResult"
    /\ (Executed({ "executeTakeFirstOrThrow" }) /\ Synthesized) =>
          /\ run.outcome.kind = "return"
          /\ run.outcome.value.kind = "InsertResult"
          /\ Len(log) = 3
          /\ \A k \in 1..Len(log) : log[k].fn = "transformQuery" => k = 1

\* executeTakeFirstOrThrow with an error callback, on a returning insert
\* whose adapter does not support returning: the driver reported no row, no
\* insert id and no count, and the synthesized result came back.
C13_Witness ==
    /\ Executed({ "executeTakeFirstOrThrow" })
    /\ run.errArg = "callback"
    /\ HasReturning /\ ~supportsReturning
    /\ Get(run.result).rows = <<>>
    /\ Get(run.result).insertId = None
    /\ Get(run.result).numAffectedRows = None
    /\ Get(run.result).numUpdatedOrDeletedRows = None
    /\ run.outcome = [ kind |-> "return", value |-> InsertResult(None, None) ]

====
